---- MODULE Spec2Model ----
(***************************************************************************)
(* Model of src/practica.py: the Prefect flow "etl-clima-openweather-mongo" *)
(* (clima_flow) and its five tasks.  One run of clima_flow is modelled.    *)
(* Each task attempt (one execution of the decorated function body) is one *)
(* action; the Prefect task engine's retry loop is the guard that lets the *)
(* same attempt action fire again while retries remain.                    *)
(*                                                                         *)
(* Python values are modelled as TLA+ records (dict), sequences (list),    *)
(* integers and strings.  None is the record [None |-> TRUE].              *)
(* retry_delay_seconds and perf_counter() only affect wall-clock time and  *)
(* the seconds= field of the *_time events; they are not modelled.         *)
(* logger.info/logger.exception and MongoClient.close() do not raise.      *)
(***************************************************************************)
EXTENDS Integers, Sequences, FiniteSets, TLC

(* ------------------------------ bounds -------------------------------- *)
\* datetime.now() at transform time is one of 1..MaxClock
MaxClock == 1

(* ---------------------------- generic helpers -------------------------- *)
None == [None |-> TRUE]

EmptyDict == [k \in {} |-> 0]

\* dict.get(k, default)
Get(d, k, default) == IF k \in DOMAIN d THEN d[k] ELSE default

\* d with the keys in K removed
Without(d, K) == [k \in DOMAIN d \ K |-> d[k]]

\* d[k] = v (adds the key when absent)
SetItem(d, k, v) == [x \in DOMAIN d \cup {k} |-> IF x = k THEN v ELSE d[x]]

Last(s) == s[Len(s)]

Count(s, e) == Len(SelectSeq(s, LAMBDA x : x = e))

(* ------------------------- retry policies ------------------------------ *)
\* the transform task decorated with retries like its neighbours
Retries_transform(stage) ==
  CASE stage = "extract"   -> 3
    [] stage = "transform" -> 2
    [] stage = "save_json" -> 2
    [] stage = "read_json" -> 2
    [] stage = "load"      -> 3

\* retries= of each @task decorator; a task without retries= has 0
Retries(stage) ==
  CASE stage = "extract"   -> 3
    [] stage = "transform" -> 0
    [] stage = "save_json" -> 2
    [] stage = "read_json" -> 2
    [] stage = "load"      -> 3

\* retries= read as the total number of executions
MaxAttempts_total(stage) == IF Retries(stage) = 0 THEN 1 ELSE Retries(stage)

\* Prefect runs the task once and then once more per retry
MaxAttempts(stage) == Retries(stage) + 1

\* order of the task calls in clima_flow
Stages == <<"extract", "transform", "save_json", "read_json", "load">>

StageSet == {Stages[i] : i \in 1..Len(Stages)}

StageIndex(stage) == CHOOSE i \in 1..Len(Stages) : Stages[i] = stage

\* flow state while the task of that stage is being run
StateOf(stage) ==
  CASE stage = "extract"   -> "Extracting"
    [] stage = "transform" -> "Transforming"
    [] stage = "save_json" -> "Saving"
    [] stage = "read_json" -> "Reloading"
    [] stage = "load"      -> "Loading"

(* ----------------------------- raw payloads ---------------------------- *)
\* A JSON string is [str |-> s], a JSON number in the same position is
\* [num |-> n]; only the value of "name" is type-inspected by the code
\* (unicodedata.normalize), the other scalars are plain integers/strings.
IsStr(v) == "str" \in DOMAIN v

FullPayload ==
  [ name       |-> [str |-> "San Jose"],
    sys        |-> [country |-> "CR", sunrise |-> 3661, sunset |-> 86399],
    main       |-> [temp |-> 22, feels_like |-> 21, temp_min |-> 20,
                    temp_max |-> 24, humidity |-> 80, pressure |-> 1012],
    weather    |-> << [description |-> "clear sky", icon |-> "01d"] >>,
    clouds     |-> [all |-> 5],
    coord      |-> [lat |-> 9, lon |-> -84],
    wind       |-> [speed |-> 3, deg |-> 90],
    visibility |-> 10000 ]

\* payloads the provider may answer with
Payloads ==
  { FullPayload,
    Without(FullPayload, {"wind", "visibility"}),
    Without(FullPayload, {"coord"}),
    [FullPayload EXCEPT !.weather = <<>>],
    Without(FullPayload, {"sys", "main"}),
    [FullPayload EXCEPT !.sys = [sunrise |-> 3661, sunset |-> 86399]],
    [FullPayload EXCEPT !.coord = EmptyDict],
    [FullPayload EXCEPT !.name = [num |-> 7]] }

\* value of response.json(): a dict or a non-dict (a JSON list)
JsonBodies ==
  { [dict |-> p] : p \in Payloads } \cup { [dict |-> EmptyDict], [list |-> <<>>] }

\* what requests.get(url, timeout=30) can do: raise, or return a response
HttpOutcomes ==
  { [raised |-> "ConnectionError"] }
    \cup { [status |-> 503] }
    \cup { [status |-> 200, json |-> b] : b \in JsonBodies }

(* ------------------------------ exceptions ----------------------------- *)
\* an exception object raised by attempt number attempt of a stage
Exc(kind, stage, attempt, args) ==
  [kind |-> kind, stage |-> stage, attempt |-> attempt, args |-> args]


(* ------------------------------ trace events --------------------------- *)
\* logger event "event={stage}_{what}"; stage "flow" for the flow's own
Ev(stage, what) == <<stage, what>>

\* an external effect performed by a task (not a logger event)
Eff(stage, what) == <<stage, what, "effect">>

IsLogEvent(e) == Len(e) = 2

(* ---------------------------- extraer_datos_clima ---------------------- *)
\* extraer_datos_clima logging extract_time after the try block instead of
\* in finally
extraer_datos_clima_no_finally(resp, attempt) ==
  LET failure(kind) ==
        [ ok    |-> FALSE,
          value |-> None,
          exc   |-> Exc(kind, "extract", attempt, <<>>),
          trace |-> << Ev("extract", "start"), Eff("extract", "http_get"),
                       Ev("extract", "error") >> ]
  IN  IF "raised" \in DOMAIN resp
        THEN failure(resp.raised)
      ELSE IF resp.status # 200
        THEN failure("HTTPError")
      ELSE IF "dict" \notin DOMAIN resp.json \/ DOMAIN resp.json.dict = {}
        THEN failure("ValueError")
      ELSE [ ok    |-> TRUE,
             value |-> resp.json.dict,
             exc   |-> None,
             trace |-> << Ev("extract", "start"), Eff("extract", "http_get"),
                          Ev("extract", "success"), Ev("extract", "time") >> ]

\* one execution of the body of extraer_datos_clima, given what the HTTP
\* call does; attempt is the number of this execution
extraer_datos_clima(resp, attempt) ==
  LET failure(kind) ==
        [ ok    |-> FALSE,
          value |-> None,
          exc   |-> Exc(kind, "extract", attempt, <<>>),
          trace |-> << Ev("extract", "start"), Eff("extract", "http_get"),
                       Ev("extract", "error"), Ev("extract", "time") >> ]
  IN  IF "raised" \in DOMAIN resp
        THEN failure(resp.raised)                        \* requests.get raises
      ELSE IF resp.status # 200
        THEN failure("HTTPError")                        \* raise_for_status
      ELSE IF "dict" \notin DOMAIN resp.json \/ DOMAIN resp.json.dict = {}
        THEN failure("ValueError")                       \* early validation
      ELSE [ ok    |-> TRUE,
             value |-> resp.json.dict,
             exc   |-> None,
             trace |-> << Ev("extract", "start"), Eff("extract", "http_get"),
                          Ev("extract", "success"), Ev("extract", "time") >> ]

(* ----------------------------- transformar_datos ----------------------- *)
required_top_keys == <<"name", "sys", "main", "weather", "clouds", "coord">>

\* the data[section][key] lookups of the record literal, in evaluation order
NestedLookups ==
  << <<"sys", "country">>, <<"main", "temp">>, <<"main", "feels_like">>,
     <<"main", "temp_min">>, <<"main", "temp_max">>, <<"main", "humidity">>,
     <<"main", "pressure">>, <<"weather", "description">>, <<"weather", "icon">>,
     <<"clouds", "all">>, <<"sys", "sunrise">>, <<"sys", "sunset">>,
     <<"coord", "lat">>, <<"coord", "lon">> >>

\* datetime.fromtimestamp(t).strftime("%H:%M:%S"), local time taken as UTC
strftime_HMS(t) == << (t \div 3600) % 24, (t \div 60) % 60, t % 60 >>

\* the record literal with the wind direction read from the speed key
BuildRegistro_copy_paste(d, now) ==
  [ ciudad            |-> d.name,
    pais              |-> d.sys.country,
    temperatura       |-> d.main.temp,
    sensacion_termica |-> d.main.feels_like,
    temp_min          |-> d.main.temp_min,
    temp_max          |-> d.main.temp_max,
    humedad           |-> d.main.humidity,
    presion           |-> d.main.pressure,
    descripcion       |-> d.weather[1].description,
    icono             |-> d.weather[1].icon,
    nubosidad         |-> d.clouds.all,
    viento_velocidad  |-> Get(Get(d, "wind", EmptyDict), "speed", 0),
    viento_direccion  |-> Get(Get(d, "wind", EmptyDict), "speed", 0),
    visibilidad       |-> Get(d, "visibility", 0),
    amanecer          |-> strftime_HMS(d.sys.sunrise),
    atardecer         |-> strftime_HMS(d.sys.sunset),
    coordenadas       |-> [latitud |-> d.coord.lat, longitud |-> d.coord.lon],
    timestamp         |-> now ]

\* the dict literal registro_clima of a payload that has every looked-up key
BuildRegistro(d, now) ==
  [ ciudad            |-> d.name,
    pais              |-> d.sys.country,
    temperatura       |-> d.main.temp,
    sensacion_termica |-> d.main.feels_like,
    temp_min          |-> d.main.temp_min,
    temp_max          |-> d.main.temp_max,
    humedad           |-> d.main.humidity,
    presion           |-> d.main.pressure,
    descripcion       |-> d.weather[1].description,
    icono             |-> d.weather[1].icon,
    nubosidad         |-> d.clouds.all,
    viento_velocidad  |-> Get(Get(d, "wind", EmptyDict), "speed", 0),
    viento_direccion  |-> Get(Get(d, "wind", EmptyDict), "deg", 0),
    visibilidad       |-> Get(d, "visibility", 0),
    amanecer          |-> strftime_HMS(d.sys.sunrise),
    atardecer         |-> strftime_HMS(d.sys.sunset),
    coordenadas       |-> [latitud |-> d.coord.lat, longitud |-> d.coord.lon],
    timestamp         |-> now ]

\* transformar_datos reporting only the first missing section
transformar_datos_first_missing(d, now, attempt) ==
  LET failure(kind, args) ==
        [ ok    |-> FALSE,
          value |-> None,
          exc   |-> Exc(kind, "transform", attempt, args),
          trace |-> << Ev("transform", "start"), Ev("transform", "error"),
                       Ev("transform", "time") >> ]
      missing == SelectSeq(required_top_keys, LAMBDA k : k \notin DOMAIN d)
      section(l) == IF l[1] = "weather" THEN d.weather[1] ELSE d[l[1]]
      absent  == SelectSeq(NestedLookups, LAMBDA l : l[2] \notin DOMAIN section(l))
  IN  IF missing # <<>>
        THEN failure("ValueError", <<missing[1]>>)
      ELSE IF d.weather = <<>>
        THEN failure("ValueError", <<"weather">>)
      ELSE IF absent # <<>>
        THEN failure("KeyError", <<absent[1][2]>>)
      ELSE IF ~IsStr(BuildRegistro(d, now).ciudad)
        THEN failure("TypeError", <<>>)
      ELSE [ ok    |-> TRUE,
             value |-> BuildRegistro(d, now),
             exc   |-> None,
             trace |-> << Ev("transform", "start"), Ev("transform", "success"),
                          Ev("transform", "time") >> ]

\* transformar_datos logging transform_success without normalizing the city
transformar_datos_no_normalize(d, now, attempt) ==
  LET failure(kind, args) ==
        [ ok    |-> FALSE,
          value |-> None,
          exc   |-> Exc(kind, "transform", attempt, args),
          trace |-> << Ev("transform", "start"), Ev("transform", "error"),
                       Ev("transform", "time") >> ]
      missing == SelectSeq(required_top_keys, LAMBDA k : k \notin DOMAIN d)
      section(l) == IF l[1] = "weather" THEN d.weather[1] ELSE d[l[1]]
      absent  == SelectSeq(NestedLookups, LAMBDA l : l[2] \notin DOMAIN section(l))
  IN  IF missing # <<>>
        THEN failure("ValueError", missing)
      ELSE IF d.weather = <<>>
        THEN failure("ValueError", <<"weather">>)
      ELSE IF absent # <<>>
        THEN failure("KeyError", <<absent[1][2]>>)
      ELSE [ ok    |-> TRUE,
             value |-> BuildRegistro(d, now),
             exc   |-> None,
             trace |-> << Ev("transform", "start"), Ev("transform", "success"),
                          Ev("transform", "time") >> ]

\* one execution of the body of transformar_datos; now is datetime.now()
transformar_datos(d, now, attempt) ==
  LET failure(kind, args) ==
        [ ok    |-> FALSE,
          value |-> None,
          exc   |-> Exc(kind, "transform", attempt, args),
          trace |-> << Ev("transform", "start"), Ev("transform", "error"),
                       Ev("transform", "time") >> ]
      missing == SelectSeq(required_top_keys, LAMBDA k : k \notin DOMAIN d)
      section(l) == IF l[1] = "weather" THEN d.weather[1] ELSE d[l[1]]
      absent  == SelectSeq(NestedLookups, LAMBDA l : l[2] \notin DOMAIN section(l))
  IN  IF missing # <<>>
        THEN failure("ValueError", missing)
      ELSE IF d.weather = <<>>
        THEN failure("ValueError", <<"weather">>)
      ELSE IF absent # <<>>
        THEN failure("KeyError", <<absent[1][2]>>)
      ELSE IF ~IsStr(BuildRegistro(d, now).ciudad)
        THEN failure("TypeError", <<>>)       \* unicodedata.normalize
      ELSE [ ok    |-> TRUE,
             value |-> BuildRegistro(d, now),
             exc   |-> None,
             trace |-> << Ev("transform", "start"), Ev("transform", "success"),
                          Ev("transform", "time") >> ]

(* ------------------------------ JSON text ------------------------------ *)
\* keys of registro_clima in insertion order (the order json.dump writes)
RegistroKeys ==
  << "ciudad", "pais", "temperatura", "sensacion_termica", "temp_min",
     "temp_max", "humedad", "presion", "descripcion", "icono", "nubosidad",
     "viento_velocidad", "viento_direccion", "visibilidad", "amanecer",
     "atardecer", "coordenadas", "timestamp" >>

\* a file that does not exist
NoFile == [exists |-> FALSE]

\* text of a JSON object: its members in written order; closed is FALSE
\* when the text stops before the closing brace
JsonText(members, closed) ==
  [exists |-> TRUE, members |-> members, closed |-> closed]

\* json.dump that writes the scalar members only and skips the nested object
json_dump_flat(registro) ==
  LET keys == SelectSeq(RegistroKeys,
                        LAMBDA k : k \in DOMAIN registro /\ k # "coordenadas")
  IN  JsonText([i \in 1..Len(keys) |->
                  [key |-> keys[i], val |-> [scalar |-> registro[keys[i]]]]], TRUE)

\* json.dump(registro, f, ensure_ascii=False, indent=2): one member per key,
\* the nested coordenadas object written as its own member list
json_dump(registro) ==
  LET keys == SelectSeq(RegistroKeys, LAMBDA k : k \in DOMAIN registro)
      enc(k) == IF k = "coordenadas"
                  THEN [object |-> << [key |-> "latitud",
                                       val |-> [scalar |-> registro[k].latitud]],
                                      [key |-> "longitud",
                                       val |-> [scalar |-> registro[k].longitud]] >>]
                  ELSE [scalar |-> registro[k]]
  IN  JsonText([i \in 1..Len(keys) |-> [key |-> keys[i], val |-> enc(keys[i])]], TRUE)

\* json parsing that keeps scalars only and loses the content of a nested
\* object
json_value_flat(v) ==
  IF "object" \in DOMAIN v THEN EmptyDict ELSE v.scalar

\* value of one parsed member
json_value(v) ==
  IF "object" \in DOMAIN v
    THEN [k \in {v.object[i].key : i \in 1..Len(v.object)} |->
            (CHOOSE m \in {v.object[i] : i \in 1..Len(v.object)} : m.key = k).val.scalar]
    ELSE v.scalar

\* json.load(f) of a complete text: the dict of its members
json_load(text) ==
  [k \in {text.members[i].key : i \in 1..Len(text.members)} |->
     json_value((CHOOSE m \in {text.members[i] : i \in 1..Len(text.members)} :
                   m.key = k).val)]

\* what the file system does to an open(): succeed, refuse the open, or
\* fail while the content is being written
FsOutcomes == {"ok", "open_fails", "write_fails"}

(* -------------------------------- guardar_json ------------------------- *)
\* guardar_json opening the file in append mode
guardar_json_append(registro, path, old, fs, attempt) ==
  LET failure(content) ==
        [ ok    |-> FALSE,
          value |-> None,
          exc   |-> Exc("OSError", "save_json", attempt, <<>>),
          file  |-> content,
          trace |-> << Ev("save_json", "start"), Ev("save_json", "error"),
                       Ev("save_json", "time") >> ]
      full == json_dump(registro)
  IN  IF fs = "open_fails"
        THEN failure(old)
      ELSE IF fs = "write_fails"
        THEN failure(JsonText(SubSeq(full.members, 1, 1), FALSE))
      ELSE [ ok    |-> TRUE,
             value |-> path,
             exc   |-> None,
             file  |-> IF old.exists
                         THEN JsonText(old.members \o full.members, TRUE)
                         ELSE full,
             trace |-> << Ev("save_json", "start"), Eff("save_json", "write"),
                          Ev("save_json", "success"), Ev("save_json", "time") >> ]

\* one execution of the body of guardar_json; yields also the new file
guardar_json(registro, json_path, old, fs, attempt) ==
  LET failure(content) ==
        [ ok    |-> FALSE,
          value |-> None,
          exc   |-> Exc("OSError", "save_json", attempt, <<>>),
          file  |-> content,
          trace |-> << Ev("save_json", "start"), Ev("save_json", "error"),
                       Ev("save_json", "time") >> ]
      full == json_dump(registro)
  IN  IF fs = "open_fails"
        THEN failure(old)
      ELSE IF fs = "write_fails"      \* open(.., "w") truncated, dump cut short
        THEN failure(JsonText(SubSeq(full.members, 1, 1), FALSE))
      ELSE [ ok    |-> TRUE,
             value |-> json_path,
             exc   |-> None,
             file  |-> full,
             trace |-> << Ev("save_json", "start"), Eff("save_json", "write"),
                          Ev("save_json", "success"), Ev("save_json", "time") >> ]

(* --------------------------------- leer_json --------------------------- *)
\* one execution of the body of leer_json on the content of the file
leer_json(content, fs, attempt) ==
  LET failure(kind) ==
        [ ok    |-> FALSE,
          value |-> None,
          exc   |-> Exc(kind, "read_json", attempt, <<>>),
          trace |-> << Ev("read_json", "start"), Ev("read_json", "error"),
                       Ev("read_json", "time") >> ]
  IN  IF fs = "open_fails"
        THEN failure("OSError")
      ELSE IF ~content.exists
        THEN failure("FileNotFoundError")
      ELSE IF ~content.closed
        THEN failure("JSONDecodeError")
      ELSE IF DOMAIN json_load(content) = {}
        THEN failure("ValueError")
      ELSE [ ok    |-> TRUE,
             value |-> json_load(content),
             exc   |-> None,
             trace |-> << Ev("read_json", "start"), Eff("read_json", "read"),
                          Ev("read_json", "success"), Ev("read_json", "time") >> ]

(* ------------------------------- cargar_a_mongo ------------------------ *)
\* what the document store client does in one attempt
MongoOutcomes == {"ok", "client_fails", "insert_fails"}

\* ObjectId() generated by insert_one for a document without _id
NewObjectId(docs) == Cardinality(docs) + 1

\* the document after insert_one: pymongo sets _id on the caller's dict
\* before it sends the document
WithId(doc, docs) ==
  IF "_id" \in DOMAIN doc THEN doc ELSE SetItem(doc, "_id", NewObjectId(docs))

\* cargar_a_mongo closing the client after the insert instead of in finally
cargar_a_mongo_leak(doc, docs, mongo, attempt) ==
  IF mongo = "client_fails"
    THEN [ ok     |-> FALSE,
           value  |-> None,
           exc    |-> Exc("ConfigurationError", "load", attempt, <<>>),
           doc    |-> doc,
           store  |-> docs,
           opened |-> 0,
           closed |-> 0,
           trace  |-> << Ev("load", "start"), Ev("load", "error"),
                         Ev("load", "time") >> ]
  ELSE IF mongo = "insert_fails"
    THEN [ ok     |-> FALSE,
           value  |-> None,
           exc    |-> Exc("ServerSelectionTimeoutError", "load", attempt, <<>>),
           doc    |-> WithId(doc, docs),
           store  |-> docs,
           opened |-> 1,
           closed |-> 0,
           trace  |-> << Ev("load", "start"), Eff("load", "client_new"),
                         Ev("load", "error"), Ev("load", "time") >> ]
  ELSE [ ok     |-> TRUE,
         value  |-> [msg |-> "Documento insertado en MongoDB con _id=",
                     inserted_id |-> WithId(doc, docs)._id],
         exc    |-> None,
         doc    |-> WithId(doc, docs),
         store  |-> docs \cup {WithId(doc, docs)},
         opened |-> 1,
         closed |-> 1,
         trace  |-> << Ev("load", "start"), Eff("load", "client_new"),
                       Eff("load", "insert_one"), Eff("load", "client_close"),
                       Ev("load", "success"), Ev("load", "time") >> ]

\* cargar_a_mongo with the failure of an attempt arising after the insert
cargar_a_mongo_late_fail(doc, docs, mongo, attempt) ==
  IF mongo = "client_fails"
    THEN [ ok     |-> FALSE,
           value  |-> None,
           exc    |-> Exc("ConfigurationError", "load", attempt, <<>>),
           doc    |-> doc,
           store  |-> docs,
           opened |-> 0,
           closed |-> 0,
           trace  |-> << Ev("load", "start"), Ev("load", "error"),
                         Ev("load", "time") >> ]
  ELSE IF mongo = "insert_fails"
    THEN [ ok     |-> FALSE,
           value  |-> None,
           exc    |-> Exc("ServerSelectionTimeoutError", "load", attempt, <<>>),
           doc    |-> WithId(doc, docs),
           store  |-> docs \cup {WithId(doc, docs)},
           opened |-> 1,
           closed |-> 1,
           trace  |-> << Ev("load", "start"), Eff("load", "client_new"),
                         Eff("load", "insert_one"), Ev("load", "error"),
                         Eff("load", "client_close"), Ev("load", "time") >> ]
  ELSE [ ok     |-> TRUE,
         value  |-> [msg |-> "Documento insertado en MongoDB con _id=",
                     inserted_id |-> WithId(doc, docs)._id],
         exc    |-> None,
         doc    |-> WithId(doc, docs),
         store  |-> docs \cup {WithId(doc, docs)},
         opened |-> 1,
         closed |-> 1,
         trace  |-> << Ev("load", "start"), Eff("load", "client_new"),
                       Eff("load", "insert_one"), Ev("load", "success"),
                       Eff("load", "client_close"), Ev("load", "time") >> ]

\* cargar_a_mongo logging load_time before closing the client in finally
cargar_a_mongo_time_first(doc, docs, mongo, attempt) ==
  IF mongo = "client_fails"
    THEN [ ok     |-> FALSE,
           value  |-> None,
           exc    |-> Exc("ConfigurationError", "load", attempt, <<>>),
           doc    |-> doc,
           store  |-> docs,
           opened |-> 0,
           closed |-> 0,
           trace  |-> << Ev("load", "start"), Ev("load", "error"),
                         Ev("load", "time") >> ]
  ELSE IF mongo = "insert_fails"
    THEN [ ok     |-> FALSE,
           value  |-> None,
           exc    |-> Exc("ServerSelectionTimeoutError", "load", attempt, <<>>),
           doc    |-> WithId(doc, docs),
           store  |-> docs,
           opened |-> 1,
           closed |-> 1,
           trace  |-> << Ev("load", "start"), Eff("load", "client_new"),
                         Ev("load", "error"), Ev("load", "time"),
                         Eff("load", "client_close") >> ]
  ELSE [ ok     |-> TRUE,
         value  |-> [msg |-> "Documento insertado en MongoDB con _id=",
                     inserted_id |-> WithId(doc, docs)._id],
         exc    |-> None,
         doc    |-> WithId(doc, docs),
         store  |-> docs \cup {WithId(doc, docs)},
         opened |-> 1,
         closed |-> 1,
         trace  |-> << Ev("load", "start"), Eff("load", "client_new"),
                       Eff("load", "insert_one"), Ev("load", "success"),
                       Ev("load", "time"), Eff("load", "client_close") >> ]

\* one execution of the body of cargar_a_mongo; yields also the caller's
\* dict after the call, the store's documents and the clients left open
cargar_a_mongo(doc, docs, mongo, attempt) ==
  IF mongo = "client_fails"          \* MongoClient(...) raises, client is None
    THEN [ ok     |-> FALSE,
           value  |-> None,
           exc    |-> Exc("ConfigurationError", "load", attempt, <<>>),
           doc    |-> doc,
           store  |-> docs,
           opened |-> 0,
           closed |-> 0,
           trace  |-> << Ev("load", "start"), Ev("load", "error"),
                         Ev("load", "time") >> ]
  ELSE IF mongo = "insert_fails"
    THEN [ ok     |-> FALSE,
           value  |-> None,
           exc    |-> Exc("ServerSelectionTimeoutError", "load", attempt, <<>>),
           doc    |-> WithId(doc, docs),
           store  |-> docs,
           opened |-> 1,
           closed |-> 1,
           trace  |-> << Ev("load", "start"), Eff("load", "client_new"),
                         Ev("load", "error"), Eff("load", "client_close"),
                         Ev("load", "time") >> ]
  ELSE [ ok     |-> TRUE,
         value  |-> [msg |-> "Documento insertado en MongoDB con _id=",
                     inserted_id |-> WithId(doc, docs)._id],
         exc    |-> None,
         doc    |-> WithId(doc, docs),
         store  |-> docs \cup {WithId(doc, docs)},
         opened |-> 1,
         closed |-> 1,
         trace  |-> << Ev("load", "start"), Eff("load", "client_new"),
                       Eff("load", "insert_one"), Ev("load", "success"),
                       Eff("load", "client_close"), Ev("load", "time") >> ]

(* ------------------------------- the state ----------------------------- *)
VARIABLES
  pc,              \* state of the flow run
  trace,           \* logger events and external effects, in order
  executions,      \* one TaskExecution per task attempt, in order
  attempts,        \* number of executions of each task so far
  data,            \* locals of clima_flow
  registro_clima,
  ruta_json,
  data_from_json,
  resultado,
  exc,             \* exception propagating out of a task into the flow
  raised,          \* exception clima_flow terminated with
  file,            \* content of the file at json_path
  store,           \* documents of the collection
  open_clients,    \* MongoClient objects created and not closed
  insert_calls,    \* the documents passed to insert_one, in order
  environ          \* os.environ when the module is loaded

vars == << pc, trace, executions, attempts, data, registro_clima, ruta_json,
           data_from_json, resultado, exc, raised, file, store, open_clients,
           insert_calls, environ >>

(* ------------------------------ configuration ------------------------- *)
\* the two required settings, in the order the module reads them
RequiredEnv == <<"MONGO_URI", "OPENWEATHER_API_KEY">>

\* get_required_env ignoring the emptiness of the value
get_required_env_unset_only(env, var_name) ==
  IF var_name \notin DOMAIN env
    THEN [ok |-> FALSE, exc |-> Exc("ValueError", "config", 0, <<var_name>>)]
    ELSE [ok |-> TRUE, value |-> env[var_name]]

\* get_required_env(var_name) on the environment env: os.getenv gives None
\* for an unset variable, and "not value" also rejects the empty string
get_required_env(env, var_name) ==
  IF var_name \notin DOMAIN env \/ env[var_name] = ""
    THEN [ok |-> FALSE, exc |-> Exc("ValueError", "config", 0, <<var_name>>)]
    ELSE [ok |-> TRUE, value |-> env[var_name]]

\* an environment in which both required settings have a value
LoadedEnviron ==
  [MONGO_URI |-> "mongodb://host", OPENWEATHER_API_KEY |-> "key"]

\* default of the json_path parameter of clima_flow
json_path == [str |-> "clima_data.json"]

\* what the file at json_path may hold before the run
InitialFiles == { NoFile, JsonText(<<>>, TRUE) }

Init ==
  /\ pc = "Start"
  /\ trace = <<>>
  /\ executions = <<>>
  /\ attempts = [s \in StageSet |-> 0]
  /\ data = None
  /\ registro_clima = None
  /\ ruta_json = None
  /\ data_from_json = None
  /\ resultado = None
  /\ exc = None
  /\ raised = None
  /\ file \in InitialFiles
  /\ store = {}
  /\ open_clients = 0
  /\ insert_calls = <<>>
  /\ environ = LoadedEnviron

(* -------------------------- Prefect task engine ------------------------ *)
\* RunTask with a final failure swallowed: the flow goes on with the next task
RunTask_swallow(stage, out, next) ==
  LET attempt == attempts[stage] + 1 IN
  /\ attempts' = [attempts EXCEPT ![stage] = attempt]
  /\ trace' = trace \o out.trace
  /\ executions' = Append(executions,
                     [stage |-> stage, attempt |-> attempt, ok |-> out.ok,
                      value |-> out.value, exc |-> out.exc])
  /\ pc' = IF out.ok THEN next
           ELSE IF attempt < MaxAttempts(stage) THEN pc
           ELSE next
  /\ exc' = exc

\* RunTask raising the exception of the first failed attempt after the
\* retries are exhausted
RunTask_first_exc(stage, out, next) ==
  LET attempt == attempts[stage] + 1 IN
  /\ attempts' = [attempts EXCEPT ![stage] = attempt]
  /\ trace' = trace \o out.trace
  /\ executions' = Append(executions,
                     [stage |-> stage, attempt |-> attempt, ok |-> out.ok,
                      value |-> out.value, exc |-> out.exc])
  /\ pc' = IF out.ok THEN next
           ELSE IF attempt < MaxAttempts(stage) THEN pc
           ELSE "Except"
  /\ exc' = IF ~out.ok /\ attempt >= MaxAttempts(stage)
              THEN [out.exc EXCEPT !.attempt = 1]
              ELSE exc

\* the engine's bookkeeping of one attempt of a task whose body produced out:
\* a success returns to the flow (state next), a failure is retried while
\* retries remain and is otherwise raised into the flow
RunTask(stage, out, next) ==
  LET attempt == attempts[stage] + 1 IN
  /\ attempts' = [attempts EXCEPT ![stage] = attempt]
  /\ trace' = trace \o out.trace
  /\ executions' = Append(executions,
                     [stage |-> stage, attempt |-> attempt, ok |-> out.ok,
                      value |-> out.value, exc |-> out.exc])
  /\ pc' = IF out.ok THEN next
           ELSE IF attempt < MaxAttempts(stage) THEN pc
           ELSE "Except"
  /\ exc' = IF ~out.ok /\ attempt >= MaxAttempts(stage) THEN out.exc ELSE exc

(* -------------------------------- clima_flow --------------------------- *)
FlowStart ==
  /\ pc = "Start"
  /\ trace' = Append(trace, Ev("flow", "start"))
  /\ pc' = "Extracting"
  /\ UNCHANGED << environ, insert_calls >>
  /\ UNCHANGED << executions, attempts, data, registro_clima, ruta_json,
                  data_from_json, resultado, exc, raised, file, store,
                  open_clients >>

\* data = extraer_datos_clima(ciudad)
ExtractAttempt ==
  /\ pc = "Extracting"
  /\ \E resp \in HttpOutcomes :
       LET out == extraer_datos_clima(resp, attempts["extract"] + 1) IN
       /\ RunTask("extract", out, "Transforming")
       /\ data' = IF out.ok THEN out.value ELSE data
  /\ UNCHANGED << environ, insert_calls >>
  /\ UNCHANGED << registro_clima, ruta_json, data_from_json, resultado,
                  raised, file, store, open_clients >>

\* registro_clima = transformar_datos(data)
TransformAttempt ==
  /\ pc = "Transforming"
  /\ \E now \in 1..MaxClock :
       LET out == transformar_datos(data, now, attempts["transform"] + 1) IN
       /\ RunTask("transform", out, "Saving")
       /\ registro_clima' = IF out.ok THEN out.value ELSE registro_clima
  /\ UNCHANGED << environ, insert_calls >>
  /\ UNCHANGED << data, ruta_json, data_from_json, resultado, raised, file,
                  store, open_clients >>

\* ruta_json = guardar_json(registro_clima, json_path)
SaveAttempt ==
  /\ pc = "Saving"
  /\ \E fs \in FsOutcomes :
       LET out == guardar_json(registro_clima, json_path, file, fs,
                               attempts["save_json"] + 1) IN
       /\ RunTask("save_json", out, "Reloading")
       /\ ruta_json' = IF out.ok THEN out.value ELSE ruta_json
       /\ file' = out.file
  /\ UNCHANGED << environ, insert_calls >>
  /\ UNCHANGED << data, registro_clima, data_from_json, resultado, raised,
                  store, open_clients >>

\* data_from_json = leer_json(ruta_json)
ReadAttempt ==
  /\ pc = "Reloading"
  /\ \E fs \in FsOutcomes \ {"write_fails"} :
       LET out == leer_json(file, fs, attempts["read_json"] + 1) IN
       /\ RunTask("read_json", out, "Loading")
       /\ data_from_json' = IF out.ok THEN out.value ELSE data_from_json
  /\ UNCHANGED << environ, insert_calls >>
  /\ UNCHANGED << data, registro_clima, ruta_json, resultado, raised, file,
                  store, open_clients >>

\* resultado = cargar_a_mongo(data_from_json)
LoadAttempt ==
  /\ pc = "Loading"
  /\ \E mongo \in MongoOutcomes :
       LET out == cargar_a_mongo(data_from_json, store, mongo,
                                 attempts["load"] + 1) IN
       /\ RunTask("load", out, "Finishing")
       /\ resultado' = IF out.ok THEN out.value ELSE resultado
       /\ data_from_json' = out.doc
       /\ store' = out.store
       /\ open_clients' = open_clients + out.opened - out.closed
       \* insert_one is reached only when MongoClient(...) returned
       /\ insert_calls' = IF mongo = "client_fails" THEN insert_calls
                          ELSE Append(insert_calls, data_from_json)
  /\ UNCHANGED environ
  /\ UNCHANGED << data, registro_clima, ruta_json, raised, file >>

\* the flow_success log call after the last task returned; evaluating its
\* arguments normalizes registro_clima["ciudad"], which raises on a non-string
FlowSuccess ==
  /\ pc = "Finishing"
  /\ IF IsStr(registro_clima.ciudad)
       THEN /\ trace' = trace \o << Ev("flow", "success"), Ev("flow", "time") >>
            /\ pc' = "Success"
            /\ exc' = exc
       ELSE /\ trace' = trace
            /\ pc' = "Except"
            /\ exc' = Exc("TypeError", "flow", 1, <<>>)
  /\ UNCHANGED << environ, insert_calls >>
  /\ UNCHANGED << executions, attempts, data, registro_clima, ruta_json,
                  data_from_json, resultado, raised, file, store, open_clients >>

\* the flow's except block raising a new error in place of the caught one
FlowExcept_wrap ==
  /\ pc = "Except"
  /\ trace' = trace \o << Ev("flow", "error"), Ev("flow", "time") >>
  /\ raised' = Exc("RuntimeError", "flow", 1, <<exc.kind>>)
  /\ pc' = "Failed"
  /\ UNCHANGED << environ, insert_calls >>
  /\ UNCHANGED << executions, attempts, data, registro_clima, ruta_json,
                  data_from_json, resultado, exc, file, store, open_clients >>

\* the flow's except block logging the error without re-raising it
FlowExcept_swallow ==
  /\ pc = "Except"
  /\ trace' = trace \o << Ev("flow", "error"), Ev("flow", "time") >>
  /\ raised' = raised
  /\ pc' = "Success"
  /\ UNCHANGED << environ, insert_calls >>
  /\ UNCHANGED << executions, attempts, data, registro_clima, ruta_json,
                  data_from_json, resultado, exc, file, store, open_clients >>

\* the flow's except block removing the intermediate file before re-raising
FlowExcept_cleanup ==
  /\ pc = "Except"
  /\ trace' = trace \o << Ev("flow", "error"), Ev("flow", "time") >>
  /\ raised' = exc
  /\ pc' = "Failed"
  /\ file' = NoFile
  /\ UNCHANGED << environ, insert_calls >>
  /\ UNCHANGED << executions, attempts, data, registro_clima, ruta_json,
                  data_from_json, resultado, exc, store, open_clients >>

\* except Exception: log flow_error, re-raise; finally: log flow_time
FlowExcept ==
  /\ pc = "Except"
  /\ trace' = trace \o << Ev("flow", "error"), Ev("flow", "time") >>
  /\ raised' = exc
  /\ pc' = "Failed"
  /\ UNCHANGED << environ, insert_calls >>
  /\ UNCHANGED << executions, attempts, data, registro_clima, ruta_json,
                  data_from_json, resultado, exc, file, store, open_clients >>

Next ==
  \/ FlowStart
  \/ ExtractAttempt
  \/ TransformAttempt
  \/ SaveAttempt
  \/ ReadAttempt
  \/ LoadAttempt
  \/ FlowSuccess
  \/ FlowExcept

Spec == Init /\ [][Next]_vars

\* every attempt terminates and the engine then goes on with the run
FairSpec == Spec /\ WF_vars(Next)

(* ------------------------------ module load --------------------------- *)
\* the environments the process may be started in (after load_env_file):
\* each required setting unset, empty, or set
Environs ==
  UNION { { e \in [K -> {""} \cup {LoadedEnviron[k] : k \in K}] :
              \A k \in K : e[k] \in {"", LoadedEnviron[k]} }
          : K \in SUBSET DOMAIN LoadedEnviron }

\* the process before the module-level statements have run
InitConfig ==
  /\ pc = "Import"
  /\ environ \in Environs
  /\ trace = <<>>
  /\ executions = <<>>
  /\ attempts = [s \in StageSet |-> 0]
  /\ data = None
  /\ registro_clima = None
  /\ ruta_json = None
  /\ data_from_json = None
  /\ resultado = None
  /\ exc = None
  /\ raised = None
  /\ file \in InitialFiles
  /\ store = {}
  /\ open_clients = 0
  /\ insert_calls = <<>>

\* MONGO_URI = get_required_env("MONGO_URI"); API_KEY = get_required_env(
\* "OPENWEATHER_API_KEY"): the first failing one ends the process, otherwise
\* the module is loaded and __main__ calls clima_flow()
ImportModule ==
  /\ pc = "Import"
  /\ LET uri == get_required_env(environ, RequiredEnv[1])
         key == get_required_env(environ, RequiredEnv[2])
     IN  IF ~uri.ok
           THEN pc' = "ConfigError" /\ raised' = uri.exc
         ELSE IF ~key.ok
           THEN pc' = "ConfigError" /\ raised' = key.exc
         ELSE pc' = "Start" /\ raised' = raised
  /\ UNCHANGED << environ, insert_calls >>
  /\ UNCHANGED << trace, executions, attempts, data, registro_clima, ruta_json,
                  data_from_json, resultado, exc, file, store, open_clients >>

NextConfig ==
  \/ ImportModule
  \/ Next

SpecConfig == InitConfig /\ [][NextConfig]_vars

(* ------------------------ transformar_datos alone ---------------------- *)
\* the optional parts of a payload: wind absent, empty, with one or with
\* both of its keys; visibility absent or present
WindVariants ==
  { [speed |-> 3, deg |-> 90], [speed |-> 3], [deg |-> 90], EmptyDict }

OptionalVariants ==
  LET base == Without(FullPayload, {"wind", "visibility"})
      winds == {base} \cup { SetItem(base, "wind", w) : w \in WindVariants }
  IN  winds \cup { SetItem(p, "visibility", 10000) : p \in winds }

\* FullPayload without one of the fields read inside its sections
FieldVariants ==
  { [FullPayload EXCEPT ![NestedLookups[i][1]] =
       IF NestedLookups[i][1] = "weather"
         THEN << Without(FullPayload.weather[1], {NestedLookups[i][2]}) >>
         ELSE Without(FullPayload[NestedLookups[i][1]], {NestedLookups[i][2]})]
    : i \in 1..Len(NestedLookups) }

\* the payloads transformar_datos is applied to
TransformInputs ==
  Payloads \cup OptionalVariants \cup FieldVariants
    \cup { Without(FullPayload, {k}) : k \in DOMAIN FullPayload }

\* the run at the call of transformar_datos: flow_start logged and the
\* extractor returned the payload on its first attempt
InitTransform ==
  \E p \in TransformInputs :
    LET out == extraer_datos_clima([status |-> 200, json |-> [dict |-> p]], 1) IN
    /\ pc = "Transforming"
    /\ trace = << Ev("flow", "start") >> \o out.trace
    /\ executions = << [stage |-> "extract", attempt |-> 1, ok |-> out.ok,
                        value |-> out.value, exc |-> out.exc] >>
    /\ attempts = [s \in StageSet |-> IF s = "extract" THEN 1 ELSE 0]
    /\ data = out.value
    /\ registro_clima = None
    /\ ruta_json = None
    /\ data_from_json = None
    /\ resultado = None
    /\ exc = None
    /\ raised = None
    /\ file \in InitialFiles
    /\ store = {}
    /\ open_clients = 0
    /\ insert_calls = <<>>
    /\ environ = LoadedEnviron

NextTransform ==
  \/ TransformAttempt
  \/ FlowExcept

SpecTransform == InitTransform /\ [][NextTransform]_vars

TypeOK ==
  /\ pc \in {"Start", "Extracting", "Transforming", "Saving", "Reloading",
             "Loading", "Finishing", "Except", "Success", "Failed"}
  /\ \A s \in StageSet : attempts[s] \in 0..MaxAttempts(s)
  /\ open_clients \in 0..1

(* ------------------------- observation helpers ------------------------- *)
\* the logger events of the run
Log == SelectSeq(trace, IsLogEvent)

\* the TaskExecutions of one stage, in order
ExecsOf(stage) == SelectSeq(executions, LAMBDA e : e.stage = stage)

\* the stage has an attempt that returned
Succeeded(stage) == \E i \in 1..Len(executions) :
                      executions[i].stage = stage /\ executions[i].ok

Terminal == {"Success", "Failed"}

\* the flow is handling, or has terminated with, an exception
Failing == pc \in {"Except", "Failed"}

(* ------------------------------- C1 ------------------------------------ *)
\* the executions so far respect the order extract, transform, save_json,
\* read_json, load, and a stage has executions only if every stage before it
\* has a successful one
C1_Order ==
  /\ \A i, j \in 1..Len(executions) :
       i < j => StageIndex(executions[i].stage) <= StageIndex(executions[j].stage)
  /\ \A i \in 1..Len(Stages) :
       attempts[Stages[i]] > 0 => \A j \in 1..(i - 1) : Succeeded(Stages[j])
  /\ Failing /\ Len(executions) > 0 /\ ~Last(executions).ok =>
       \A i \in 1..Len(Stages) :
         i > StageIndex(Last(executions).stage) => attempts[Stages[i]] = 0

\* C1: the stages are invoked only in the order extract, transform,
\* save_json, read_json, load, each only after all preceding stages succeeded;
\* once a stage has failed for good the flow goes to Failed and no stage is
\* invoked any more in the run.
C1_FailFast ==
  /\ [] C1_Order
  /\ [][Failing => /\ pc' = "Failed"
                   /\ attempts' = attempts
                   /\ executions' = executions]_vars

\* save_json ran out of retries after extract and transform succeeded, the
\* flow is Failed and neither read_json nor load was invoked
C1_Witness ==
  /\ pc = "Failed"
  /\ raised.stage = "save_json"
  /\ Succeeded("extract") /\ Succeeded("transform")
  /\ attempts["read_json"] = 0 /\ attempts["load"] = 0

(* ------------------------------- C2 ------------------------------------ *)
\* every execution of the stage so far failed
AlwaysFailed(stage) == \A i \in 1..Len(executions) :
                         executions[i].stage = stage => ~executions[i].ok

\* the run has failed in this stage: the stage's failure reached the flow
FailedIn(stage) == Failing /\ exc.stage = stage

\* total executions of an always failing stage as the claim states them
ClaimedAttempts(stage) ==
  CASE stage = "extract"   -> 3
    [] stage = "save_json" -> 2
    [] stage = "read_json" -> 2
    [] stage = "load"      -> 3

\* total executions of an always failing stage under retries=3 / retries=2
ActualAttempts(stage) ==
  CASE stage = "extract"   -> 4
    [] stage = "save_json" -> 3
    [] stage = "read_json" -> 3
    [] stage = "load"      -> 4

RetriedStages == {"extract", "save_json", "read_json", "load"}

\* C2 as stated: a stage that fails on every attempt has been executed 3
\* (extract), 2 (save_json, read_json), 3 (load) times when the flow fails,
\* and the flow has failed once that many attempts have failed; after three
\* failing API calls the flow is failed with the Transformer not invoked.
C2_Original ==
  \A s \in RetriedStages :
    /\ FailedIn(s) => attempts[s] = ClaimedAttempts(s)
    /\ AlwaysFailed(s) /\ attempts[s] = ClaimedAttempts(s) => FailedIn(s)

\* C2 (amended): a stage that fails on every attempt is executed exactly 4
\* times for extract, 3 for save_json and read_json, 4 for load (the first
\* run plus retries=3 / retries=2 retries) and then the flow fails; it has
\* not failed before that many attempts.  When the API fails four consecutive
\* times the extractor was attempted 4 times and the Transformer not at all.
C2_AttemptBounds ==
  \A s \in RetriedStages :
    /\ attempts[s] <= ActualAttempts(s)
    /\ FailedIn(s) => attempts[s] = ActualAttempts(s) /\ AlwaysFailed(s)
    /\ AlwaysFailed(s) /\ attempts[s] = ActualAttempts(s) => FailedIn(s)
    /\ FailedIn("extract") => attempts["transform"] = 0

\* the API answered 503 four consecutive times and the flow is Failed
C2_Witness ==
  /\ pc = "Failed"
  /\ raised.stage = "extract" /\ raised.kind = "HTTPError"
  /\ attempts["extract"] = 4
  /\ \A i \in 1..Len(executions) :
       ~executions[i].ok /\ executions[i].exc.kind = "HTTPError"

(* ------------------------------- C3 ------------------------------------ *)
\* the local of clima_flow that receives the stage's return value and is the
\* argument of the next task call (insert_one adds _id to data_from_json)
ResultOf(stage) ==
  CASE stage = "extract"   -> data
    [] stage = "transform" -> registro_clima
    [] stage = "save_json" -> ruta_json
    [] stage = "read_json" -> Without(data_from_json, {"_id"})
    [] stage = "load"      -> resultado

\* number of failed executions of the stage
Failures(stage) == Len(SelectSeq(ExecsOf(stage), LAMBDA e : ~e.ok))

\* C3: for every retried stage with maximum attempt count N (4, 3, 3, 4):
\* attempts are numbered consecutively and never exceed N; no attempt follows
\* the first success; a stage that failed k < N times and then succeeded made
\* exactly k+1 attempts and the value of the successful attempt is what the
\* flow holds for the next stage; a stage that always fails makes exactly N
\* attempts and the exception of the last attempt is the one propagated.
C3_RetryInvariant ==
  \A s \in RetriedStages :
    LET E == ExecsOf(s)
        N == ActualAttempts(s)
    IN  /\ Len(E) = attempts[s]
        /\ Len(E) <= N
        /\ \A i \in 1..Len(E) : E[i].attempt = i /\ (E[i].ok => i = Len(E))
        /\ Succeeded(s) =>
             /\ Failures(s) < N
             /\ Len(E) = Failures(s) + 1
             /\ ResultOf(s) = Last(E).value
        /\ FailedIn(s) =>
             /\ Len(E) = N
             /\ AlwaysFailed(s)
             /\ exc = E[N].exc
        /\ AlwaysFailed(s) /\ Len(E) = N => FailedIn(s)

\* the extractor failed twice, succeeded on its third attempt, and the flow
\* is about to transform the value that attempt returned
C3_Witness ==
  /\ pc = "Transforming"
  /\ attempts["extract"] = 3
  /\ Last(executions).ok
  /\ data = Last(executions).value

(* ------------------------------- C4 ------------------------------------ *)
\* C4: transformar_datos is executed at most once in a run, and when that
\* execution fails the flow fails in the transform stage with no later
\* stage invoked.
C4_TransformOnce ==
  /\ attempts["transform"] <= 1
  /\ attempts["transform"] = 1 /\ ~Succeeded("transform") =>
       /\ FailedIn("transform")
       /\ attempts["save_json"] = 0
       /\ attempts["read_json"] = 0
       /\ attempts["load"] = 0

\* the payload had no coord section: the single transform execution failed
\* and the flow is Failed
C4_Witness ==
  /\ pc = "Failed"
  /\ raised.stage = "transform"
  /\ raised.kind = "ValueError"
  /\ raised.args = <<"coord">>
  /\ attempts["transform"] = 1

(* ------------------------------- C5 ------------------------------------ *)
\* the execution failed validation: the extractor's body or the reloaded
\* file was empty or not a key-value document
ValidationFailure(e) ==
  /\ e.stage \in {"extract", "read_json"}
  /\ ~e.ok
  /\ e.exc.kind = "ValueError"

\* C5: a stage whose attempt failed validation is not attempted again.
C5_ValidationNotRetried ==
  \A i, j \in 1..Len(executions) :
    i < j /\ ValidationFailure(executions[i]) =>
      executions[j].stage # executions[i].stage

(* ------------------------------- C6 ------------------------------------ *)
\* number of MongoClient objects created / closed in the run
ClientsCreated == Count(trace, Eff("load", "client_new"))

ClientsClosed == Count(trace, Eff("load", "client_close"))

\* every client_new is followed by its client_close before the attempt's
\* load_time event, i.e. before the attempt returns or re-raises
ClosedWithinAttempt ==
  \A i \in 1..Len(trace) :
    trace[i] = Eff("load", "client_new") =>
      \E j \in (i + 1)..Len(trace) :
        /\ trace[j] = Eff("load", "client_close")
        /\ \A k \in (i + 1)..(j - 1) :
             trace[k] \notin {Ev("load", "time"), Ev("load", "start"),
                              Eff("load", "client_new")}

\* the load attempts in which MongoClient(...) itself raised
ClientFailures ==
  Len(SelectSeq(ExecsOf("load"),
                LAMBDA e : ~e.ok /\ e.exc.kind = "ConfigurationError"))

\* C6 as stated: after any sequence of load attempts the number of releases
\* equals the number of attempts, and no connection is open at the end.
C6_Original ==
  /\ ClientsClosed = attempts["load"]
  /\ pc \in Terminal => open_clients = 0

\* C6 (amended): every attempt of cargar_a_mongo that created a connection
\* releases it before the attempt returns or re-raises, so the number of
\* releases equals the number of attempts that created a connection (all of
\* them unless MongoClient(...) itself raised) and no connection is open
\* between attempts or when the flow reaches Success or Failed.
C6_ConnectionRelease ==
  /\ ClientsClosed = ClientsCreated
  /\ ClientsCreated = attempts["load"] - ClientFailures
  /\ ClosedWithinAttempt
  /\ open_clients = 0

\* the insert failed on attempt 1 and succeeded on attempt 2: two attempts,
\* two releases, flow in Success
C6_Witness ==
  /\ pc = "Success"
  /\ attempts["load"] = 2
  /\ ClientsClosed = 2
  /\ Cardinality(store) = 1

(* ------------------------------- C7 ------------------------------------ *)
\* logger events of one stage / everything one stage did, in order
StageLog(stage) == SelectSeq(Log, LAMBDA e : e[1] = stage)

StageTrace(stage) == SelectSeq(trace, LAMBDA e : e[1] = stage)

\* C7: for each stage, attempt i logs {stage}_start, then {stage}_success or
\* {stage}_error, then {stage}_time and nothing else; start opens and time
\* closes everything the attempt does; the attempt logged error exactly when
\* it raised, and an attempt that raised returned no value.
C7_EventProtocol ==
  \A s \in StageSet :
    LET L == StageLog(s)
        T == StageTrace(s)
        E == ExecsOf(s)
    IN  /\ Len(L) = 3 * Len(E)
        /\ \A i \in 1..Len(E) :
             /\ L[3 * i - 2] = Ev(s, "start")
             /\ L[3 * i - 1] = Ev(s, IF E[i].ok THEN "success" ELSE "error")
             /\ L[3 * i] = Ev(s, "time")
             /\ E[i].ok => E[i].exc = None
             /\ ~E[i].ok => E[i].exc # None /\ E[i].value = None
        /\ T # <<>> => T[1] = Ev(s, "start") /\ Last(T) = Ev(s, "time")
        /\ \A j \in 1..(Len(T) - 1) :
             T[j] = Ev(s, "time") <=> T[j + 1] = Ev(s, "start")

\* a run to Success in which extract and save_json each needed a second
\* attempt: failed and successful attempts of retried stages, one of each
\* other stage
C7_Witness ==
  /\ pc = "Success"
  /\ attempts["extract"] = 2
  /\ attempts["save_json"] = 2

(* ------------------------------- C8 ------------------------------------ *)
FlowLog == StageLog("flow")

AllSucceeded == \A s \in StageSet : Succeeded(s)

\* C8: flow_start is the first event of the run and is logged once; until
\* the run terminates no other flow event is logged; a terminated run has
\* logged exactly flow_start, one of flow_success / flow_error, flow_time,
\* with flow_time the last event of all; flow_success is the one logged
\* exactly when all five stages succeeded, and a failed run has exactly one
\* flow_error.
C8_FlowProtocol ==
  /\ trace # <<>> => trace[1] = Ev("flow", "start")
  /\ Count(trace, Ev("flow", "start")) = (IF pc = "Start" THEN 0 ELSE 1)
  /\ pc \notin Terminal => Len(FlowLog) <= 1
  /\ pc \in Terminal =>
       /\ Len(FlowLog) = 3
       /\ Last(trace) = Ev("flow", "time")
       /\ trace[Len(trace) - 1] = FlowLog[2]
       /\ FlowLog[2] \in {Ev("flow", "success"), Ev("flow", "error")}
       /\ FlowLog[2] = Ev("flow", "success") <=> AllSucceeded
       /\ FlowLog[2] = Ev("flow", "success") <=> pc = "Success"
  /\ pc = "Failed" => Count(trace, Ev("flow", "error")) = 1

\* a failed run with five failed attempts (two saves, three reads) and a
\* single flow_error
C8_Witness ==
  /\ pc = "Failed"
  /\ raised.stage = "read_json"
  /\ attempts["save_json"] = 3
  /\ Count(trace, Ev("flow", "error")) = 1

(* ------------------------------- C9 ------------------------------------ *)
\* C9: the exception the flow handles, and the one clima_flow terminates
\* with, is the exception object raised by the last task attempt of the
\* run, which is the final attempt of the failing stage.
C9_ErrorUnchanged ==
  /\ pc = "Except" => /\ ~Last(executions).ok
                      /\ exc = Last(executions).exc
  /\ pc = "Failed" => /\ ~Last(executions).ok
                      /\ raised = Last(executions).exc
                      /\ raised.attempt = attempts[raised.stage]

\* the store insert timed out on all four attempts and the flow terminated
\* with the fourth attempt's exception
C9_Witness ==
  /\ pc = "Failed"
  /\ raised.stage = "load"
  /\ raised.kind = "ServerSelectionTimeoutError"
  /\ raised.attempt = 4

(* ------------------------------- C10 ----------------------------------- *)
\* the stages of the successful executions, in order of execution
SuccessOrder ==
  LET ok == SelectSeq(executions, LAMBDA e : e.ok)
  IN  [i \in 1..Len(ok) |-> ok[i].stage]

\* C10: every run eventually reaches Success or Failed and stays there;
\* it is in Success only when the five stages succeeded in order, with no
\* exception raised out of the flow.
C10_Termination ==
  /\ <>(pc \in Terminal)
  /\ [](pc = "Success" => SuccessOrder = Stages /\ raised = None)
  /\ [](pc = "Failed" => raised # None)
  /\ [][(pc \in Terminal) => (pc' = pc)]_vars

\* a run in which every stage succeeded on its first attempt
C10_Witness ==
  /\ pc = "Success"
  /\ Len(executions) = 5
  /\ resultado # None

(* ------------------------------- C11 ----------------------------------- *)
\* C11: once save_json has succeeded the intermediate file holds the saved
\* record for the rest of the run, in particular when the flow terminates
\* Failed in read_json or load; handling the failure writes nothing to the
\* file and nothing to the document store.
C11_NoRollback ==
  /\ [](Succeeded("save_json") => file.exists /\ file = json_dump(registro_clima))
  /\ [][Failing => file' = file /\ store' = store]_vars

\* the run failed in read_json after save_json succeeded and the file still
\* holds the record
C11_Witness ==
  /\ pc = "Failed"
  /\ raised.stage = "read_json"
  /\ Succeeded("save_json")
  /\ file = json_dump(registro_clima)

(* ------------------------------- C12 ----------------------------------- *)
\* the sections a raw payload must have, and the fields read inside them
RequiredSections == {"name", "sys", "main", "weather", "clouds", "coord"}

RequiredFields(section) ==
  CASE section = "sys"     -> {"country", "sunrise", "sunset"}
    [] section = "main"    -> {"temp", "feels_like", "temp_min", "temp_max",
                               "humidity", "pressure"}
    [] section = "weather" -> {"description", "icon"}
    [] section = "clouds"  -> {"all"}
    [] section = "coord"   -> {"lat", "lon"}
    [] section = "name"    -> {}

MissingSections(d) == RequiredSections \ DOMAIN d

\* of a payload with every section and a weather entry: the absent fields
MissingFields(d) ==
  UNION { RequiredFields(sec) \ DOMAIN (IF sec = "weather" THEN d.weather[1] ELSE d[sec])
          : sec \in RequiredSections \ {"name"} }

\* the payload lacks a section, a weather entry or a field of a section
Incomplete(d) ==
  \/ MissingSections(d) # {}
  \/ d.weather = <<>>
  \/ MissingFields(d) # {}

\* the keys an incomplete payload is missing
MissingKeys(d) ==
  IF MissingSections(d) # {} THEN MissingSections(d)
  ELSE IF d.weather = <<>> THEN {"weather"}
  ELSE MissingFields(d)

\* the keys named by an exception
Named(e) == {e.args[i] : i \in 1..Len(e.args)}

\* the execution of transformar_datos of this run
TransformRun == ExecsOf("transform")[1]

\* C12 as stated: on every incomplete payload transformar_datos fails with a
\* validation error (ValueError) that lists the missing keys and returns no
\* record; without coord the error names coord and the Loader is not invoked.
C12_Original ==
  attempts["transform"] = 1 /\ Incomplete(data) =>
    /\ ~TransformRun.ok
    /\ TransformRun.value = None /\ registro_clima = None
    /\ TransformRun.exc.kind = "ValueError"
    /\ MissingKeys(data) \subseteq Named(TransformRun.exc)
    /\ "coord" \notin DOMAIN data =>
         "coord" \in Named(TransformRun.exc) /\ attempts["load"] = 0

\* C12 (amended): on every incomplete payload transformar_datos fails and
\* returns no record, never a partial one.  A missing top-level section gives
\* a ValueError listing exactly the missing sections, an empty weather list a
\* ValueError naming weather, and an absent field inside a present section a
\* KeyError naming one absent field only.  Without coord the error names
\* coord and the Loader is not invoked.
C12_AllOrNothing ==
  attempts["transform"] = 1 /\ Incomplete(data) =>
    /\ ~TransformRun.ok
    /\ TransformRun.value = None /\ registro_clima = None
    /\ attempts["save_json"] = 0 /\ attempts["read_json"] = 0
    /\ attempts["load"] = 0
    /\ IF MissingSections(data) # {}
         THEN /\ TransformRun.exc.kind = "ValueError"
              /\ Named(TransformRun.exc) = MissingSections(data)
         ELSE IF data.weather = <<>>
           THEN /\ TransformRun.exc.kind = "ValueError"
                /\ Named(TransformRun.exc) = {"weather"}
           ELSE /\ TransformRun.exc.kind = "KeyError"
                /\ Len(TransformRun.exc.args) = 1
                /\ Named(TransformRun.exc) \subseteq MissingFields(data)

\* the payload had neither sys nor main: the run is Failed with a ValueError
\* listing both
C12_Witness ==
  /\ pc = "Failed"
  /\ raised.stage = "transform"
  /\ raised.args = <<"sys", "main">>
  /\ registro_clima = None

(* ------------------------------- C13 ----------------------------------- *)
\* the value returned by the successful execution of leer_json
Reloaded == Last(ExecsOf("read_json")).value

\* C13: what leer_json returns from the file guardar_json wrote equals the
\* record that was saved, key for key and value for value, the nested
\* coordenadas included; the same holds of a fresh save and reload of the
\* record at json_path whatever the file holds.
C13_RoundTrip ==
  /\ Succeeded("read_json") =>
       /\ DOMAIN Reloaded = DOMAIN registro_clima
       /\ \A k \in DOMAIN registro_clima : Reloaded[k] = registro_clima[k]
       /\ Reloaded.coordenadas.latitud = data.coord.lat
       /\ Reloaded.coordenadas.longitud = data.coord.lon
  /\ Succeeded("transform") =>
       leer_json(guardar_json(registro_clima, json_path, file, "ok", 1).file,
                 "ok", 1).value = registro_clima

\* the record was saved on the second attempt, reloaded, and the reloaded
\* value is about to be loaded
C13_Witness ==
  /\ pc = "Loading"
  /\ attempts["load"] = 0
  /\ attempts["save_json"] = 2
  /\ data_from_json = registro_clima

(* ------------------------------- C14 ----------------------------------- *)
\* number of insert_one calls that returned
Inserts == Count(trace, Eff("load", "insert_one"))

\* C14: the store holds at most one document of the run, one per insert_one
\* call that returned; a run in Success has inserted exactly one document, a
\* run that has not reached the load stage none, and no load attempt starts
\* after an insert that succeeded.
C14_OneDocument ==
  /\ Inserts <= 1
  /\ Cardinality(store) = Inserts
  /\ pc = "Success" => Inserts = 1
  /\ attempts["load"] = 0 => Inserts = 0 /\ store = {}
  /\ LET T == SelectSeq(trace, LAMBDA e : e[1] = "load")
     IN  \A i, j \in 1..Len(T) :
           i < j /\ T[i] = Eff("load", "insert_one") =>
             T[j] # Ev("load", "start")

\* the insert succeeded on the third load attempt: one document, Success
C14_Witness ==
  /\ pc = "Success"
  /\ attempts["load"] = 3
  /\ Cardinality(store) = 1
  /\ Inserts = 1

(* ------------------------------- C15 ----------------------------------- *)
\* a required setting is unset or empty
ConfigMissing ==
  \E i \in 1..Len(RequiredEnv) :
    RequiredEnv[i] \notin DOMAIN environ \/ environ[RequiredEnv[i]] = ""

\* C15: when MONGO_URI or OPENWEATHER_API_KEY is unset or empty the process
\* ends with a configuration error (ValueError naming a missing setting)
\* raised while the module loads: no stage is ever invoked and no event is
\* ever logged; with both set there is no configuration error.
C15_ConfigFirst ==
  /\ ConfigMissing =>
       /\ pc \in {"Import", "ConfigError"}
       /\ trace = <<>>
       /\ executions = <<>>
       /\ \A s \in StageSet : attempts[s] = 0
  /\ pc = "ConfigError" =>
       /\ ConfigMissing
       /\ raised.kind = "ValueError"
       /\ Len(raised.args) = 1
       /\ raised.args[1] \notin DOMAIN environ \/ environ[raised.args[1]] = ""
  /\ ~ConfigMissing => pc # "ConfigError"

\* MONGO_URI is set and the API key is empty: configuration error naming
\* the key, nothing logged
C15_Witness ==
  /\ pc = "ConfigError"
  /\ "MONGO_URI" \in DOMAIN environ /\ environ["MONGO_URI"] # ""
  /\ raised.args = <<"OPENWEATHER_API_KEY">>
  /\ trace = <<>>

(* ------------------------------- C16 ----------------------------------- *)
\* the payload has every required section and field, and a string name
ValidPayload(d) == ~Incomplete(d) /\ IsStr(d.name)

C17_Original ==
  \A i \in 1..Len(insert_calls) : insert_calls[i] = registro_clima

\* C17 (amended): every document passed to insert_one has every field of the
\* record transformar_datos produced, with the same value; the document of
\* the first insert_one call equals the record, and the document of a later
\* call (a retry after a failed insert) carries in addition only the _id the
\* earlier insert_one call set on it.  The stored document is the record
\* plus _id.
C17_DataIntegrity ==
  /\ \A i \in 1..Len(insert_calls) :
       /\ Without(insert_calls[i], {"_id"}) = registro_clima
       /\ i = 1 => insert_calls[i] = registro_clima
       /\ i > 1 => /\ "_id" \in DOMAIN insert_calls[i]
                   /\ insert_calls[i] = data_from_json
  /\ pc = "Loading" /\ attempts["load"] = 0 => data_from_json = registro_clima
  /\ \A doc \in store : /\ Without(doc, {"_id"}) = registro_clima
                        /\ doc = data_from_json

\* the first insert failed and the second succeeded: the stored document is
\* the record plus the _id set by the first call
C17_Witness ==
  /\ pc = "Success"
  /\ Len(insert_calls) = 2
  /\ insert_calls[1] = registro_clima
  /\ insert_calls[2] \in store

(* ------------------------------- C18 ----------------------------------- *)
\* C18: a save attempt that succeeds leaves in the file exactly the
\* serialization of the record, whatever the file held before (nothing, an
\* older text, or the cut-off text of a failed attempt), and saving the same
\* record to the same path once more leaves the same content.
C18_Overwrite ==
  [][ attempts'["save_json"] = attempts["save_json"] + 1 /\ Last(executions').ok
        => /\ file' = json_dump(registro_clima)
           /\ guardar_json(registro_clima, json_path, file', "ok", 1).file = file'
    ]_vars

\* the save succeeded on its third attempt and the file holds the record's
\* serialization
C18_Witness ==
  /\ pc = "Reloading"
  /\ attempts["save_json"] = 3
  /\ file = json_dump(registro_clima)
  /\ Len(file.members) = Len(RegistroKeys)

(* ------------------------------- C19 ----------------------------------- *)
\* everything the load stage did, in order
LoadTrace == StageTrace("load")

\* what the i-th attempt of cargar_a_mongo did, load_start to load_time
LoadSegment(i) ==
  LET T == LoadTrace
      from == CHOOSE j \in 1..Len(T) :
                /\ T[j] = Ev("load", "start")
                /\ Len(SelectSeq(SubSeq(T, 1, j),
                                 LAMBDA e : e = Ev("load", "start"))) = i
      to == CHOOSE j \in from..Len(T) :
              /\ T[j] = Ev("load", "time")
              /\ \A k \in from..(j - 1) : T[k] # Ev("load", "time")
  IN  SubSeq(T, from, to)

\* C19: at every point of the run the releases do not exceed the connections
\* created; within an attempt a release comes after that attempt's creation
\* and is directly followed by load_time; an attempt in which the creation
\* raised has only load_start, load_error, load_time and no release.
C19_ReleaseOwnClient ==
  /\ \A n \in 0..Len(LoadTrace) :
       Count(SubSeq(LoadTrace, 1, n), Eff("load", "client_close"))
         <= Count(SubSeq(LoadTrace, 1, n), Eff("load", "client_new"))
  /\ \A i \in 1..attempts["load"] :
       LET S == LoadSegment(i)
           e == ExecsOf("load")[i]
       IN  /\ Count(S, Eff("load", "client_close")) = Count(S, Eff("load", "client_new"))
           /\ Count(S, Eff("load", "client_close")) <= 1
           /\ \A j \in 1..Len(S) :
                S[j] = Eff("load", "client_close") =>
                  /\ j + 1 = Len(S)
                  /\ \E k \in 1..(j - 1) : S[k] = Eff("load", "client_new")
           /\ Last(S) = Ev("load", "time")
           /\ ~e.ok /\ e.exc.kind = "ConfigurationError" =>
                S = << Ev("load", "start"), Ev("load", "error"), Ev("load", "time") >>

\* MongoClient(...) raised in the first attempt and the second attempt
\* inserted: two attempts, one connection created, one release
C19_Witness ==
  /\ pc = "Success"
  /\ attempts["load"] = 2
  /\ ClientFailures = 1
  /\ ClientsCreated = 1
  /\ ClientsClosed = 1

====
